---- MODULE Spec2Model ----
(***************************************************************************)
(* Model of deatomize (src/main.go): a single-pass, sequential pipeline    *)
(*   getRecords -> skipRecords -> getRecordDistribution -> analyze ->      *)
(*   report -> analyzeNasty -> printInvalid -> rollback                    *)
(* The EOS client (GetFileInfoByFXID, ListVersions, RollbackToVersion) is  *)
(* the environment: each call's answer is chosen nondeterministically.     *)
(* Records are heap objects; the slices of main hold pointers to them,     *)
(* modelled as indices into the sequence "records".                        *)
(***************************************************************************)
EXTENDS Integers, Sequences, FiniteSets, TLC

\* ---- bounds of the model ------------------------------------------------
MaxRecords == 2      \* lines in the input file
MaxVersions == 2     \* versions the backend returns for one listing
MaxChunks == 20      \* sizes given to isChunked on its own reach MaxChunks + 1 chunks

\* ---- status constants (main.go 44-51) ------------------------------------
notNasty == 0
repairable == 1
nastyNotChunk == 2
nastyNoVersions == 3
nastyInvalidVersion == 4
nastyNotExistsAnymore == 5

\* 10*1000000 in isChunked
ChunkSize == 10000000

\* isChunked with a chunk of 10 binary megabytes
isChunkedBinaryMega(sz) == IF sz % (10 * 1024 * 1024) = 0 THEN TRUE ELSE FALSE

isChunked(sz) == IF sz % ChunkSize = 0 THEN TRUE ELSE FALSE

\* ---- the input file -------------------------------------------------------
\* A line is the sequence of fields the csv reader (Comma = ' ') returns.
GoodLines == { <<"1592324325", "018edb0f">> }
BadLines == { <<"1592324325">>, <<"mtime", "018edb0f">> }
Lines == GoodLines \cup BadLines

\* strconv.ParseInt(s, 10, 64): the decimal strings of the model and their values
DecimalValue == ("1592324325" :> 1592324325) @@ ("1592324329" :> 1592324329)
             @@ ("0" :> 0)
ParseInt(s) == IF s \in DOMAIN DecimalValue
               THEN [err |-> FALSE, val |-> DecimalValue[s]]
               ELSE [err |-> TRUE, val |-> 0]

\* ---- paths ------------------------------------------------------------------
\* strings.Contains(filename, seg) for the paths of the model: the well-known
\* segments each path contains.
Segments == ("/eos/user/g/gonzalhu/file" :> {})
         @@ ("/eos/user/proc/recycle/uid:1/file" :> {"/proc/recycle"})
         @@ ("/eos/user/g/gonzalhu/.sys.v#.file/1592.a1" :> {"sys.v"})
         @@ ("/eos/user/g/gonzalhu/.sys.a#.file.c3" :> {"sys.a"})
         @@ ("/eos/user/proc/recycle/uid:1/.sys.v#.file/1592.a1" :> {"/proc/recycle", "sys.v"})
         @@ ("/eos/user/g/gonzalhu/.sys.v#.file/.sys.a#.1592.a1" :> {"sys.v", "sys.a"})
Paths == DOMAIN Segments
Contains(s, substr) == substr \in Segments[s]

\* path.Base of a version file: a version file is <<version folder, key>>
Base(p) == p[Len(p)]

\* ---- the record struct (main.go 337-346) ---------------------------------------
\* ValidVersion is a pointer: <<>> is nil, <<v>> points to v.
record(fxid, date) ==
  [FXID |-> fxid, Handled |-> FALSE, Size |-> 0, Date |-> date, File |-> "",
   Status |-> notNasty, Versions |-> <<>>, ValidVersion |-> <<>>]

VARIABLES
  pc,          \* position of main
  input,       \* the lines of the input file
  repair,      \* the -repair flag
  records,     \* the record objects, in input order
  newRecords,  \* skipRecords' toret: indices of the records that pass the filter
  sk,          \* the skipped counters
  chunked,     \* main's chunked slice (indices)
  nasty,       \* main's nasty slice (indices)
  newchunked,  \* analyze's newchunked slice (indices)
  i,           \* index of the running loop
  fetched,     \* per record, the answer of GetFileInfoByFXID (<<>> = not asked)
  listed,      \* per record, the version lists ListVersions returned, in call order
  calls,       \* log of the backend calls made
  out,         \* log of what was printed (report parts and rollback plan)
  size,        \* the argument of a call of isChunked on its own
  ret          \* what that call returned

vars == <<pc, input, repair, records, newRecords, sk, chunked, nasty,
          newchunked, i, fetched, listed, calls, out, size, ret>>

\* the files of the model: up to MaxRecords lines (an empty file has none)
Inputs == UNION { [1..n -> Lines] : n \in 0..MaxRecords }

Init ==
  /\ pc = "getRecords"
  /\ input \in Inputs
  /\ repair \in BOOLEAN
  /\ records = <<>>
  /\ newRecords = <<>>
  /\ sk = [Recycle |-> 0, Versions |-> 0, Atomic |-> 0]
  /\ chunked = <<>>
  /\ nasty = <<>>
  /\ newchunked = <<>>
  /\ i = 1
  /\ fetched = <<>>
  /\ listed = <<>>
  /\ calls = <<>>
  /\ out = <<>>
  /\ size = 0
  /\ ret = FALSE

\* ---- getRecords (main.go 271-311) -----------------------------------------------
\* The csv reader fixes the field count with the first line; a line with
\* another count is a read error (fatal), as is a count other than 2 or a
\* timestamp ParseInt rejects.
LineOk(line) == Len(line) = 2 /\ ~ParseInt(line[1]).err

\* getRecords that skips a malformed line instead of aborting
getRecordsSkipsBadLines ==
  /\ pc = "getRecords"
  /\ LET good == SelectSeq(input, LineOk) IN
       /\ records' = [k \in 1..Len(good) |->
                        record(good[k][2], ParseInt(good[k][1]).val)]
       /\ fetched' = [k \in 1..Len(good) |-> <<>>]
       /\ listed' = [k \in 1..Len(good) |-> <<>>]
  /\ pc' = "skipRecords"
  /\ i' = 1
  /\ UNCHANGED <<input, repair, newRecords, sk, chunked, nasty, newchunked,
                 calls, out>>
  /\ UNCHANGED <<size, ret>>

getRecords ==
  /\ pc = "getRecords"
  /\ IF \A k \in 1..Len(input) : LineOk(input[k])
     THEN /\ records' = [k \in 1..Len(input) |->
                           record(input[k][2], ParseInt(input[k][1]).val)]
          /\ fetched' = [k \in 1..Len(input) |-> <<>>]
          /\ listed' = [k \in 1..Len(input) |-> <<>>]
          /\ pc' = "skipRecords"
     ELSE /\ pc' = "fatal"
          /\ UNCHANGED <<records, fetched, listed>>
  /\ i' = 1
  /\ UNCHANGED <<input, repair, newRecords, sk, chunked, nasty, newchunked,
                 calls, out>>
  /\ UNCHANGED <<size, ret>>

\* ---- the backend's answers --------------------------------------------------------
\* GetFileInfoByFXID: an error, or a FileInfo with the current path and size.
MetaSizes == {12345678, 30000000}
FileInfos == [err : {FALSE}, File : Paths, Size : MetaSizes]
MetaError == [err |-> TRUE, File |-> "", Size |-> 0]
MetaResponses == FileInfos \cup {MetaError}

\* ListVersions: an error (the path is gone, or a transport failure), or the
\* list of versions in the backend's order.  The k-th version returned is
\* the file <<version folder, k>>.
VersionSizes == {15000000, 20000000}
MTimes == {90, 100}
VersionFolder == ".sys.v#.file"
VersionLists ==
  UNION { { [k \in 1..n |-> [File |-> <<VersionFolder, k>>,
                             Size |-> f[k][1], MTimeSec |-> f[k][2]]] :
              f \in [1..n -> VersionSizes \X MTimes] } : n \in 0..MaxVersions }
ListErrors == {"notfound", "transport"}

\* one entry of the log of backend calls
call(op, rec, arg, version, err) ==
  [op |-> op, rec |-> rec, arg |-> arg, version |-> version, err |-> err]

\* one entry of the log of printed output
printed(what, rec) == [what |-> what, rec |-> rec]

\* ---- skipRecords (main.go 77-109), one iteration of its loop -----------------------
\* skipRecordsStep that aborts on a metadata error instead of continuing
skipRecordsStepFatalOnError ==
  /\ pc = "skipRecords"
  /\ i <= Len(records)
  /\ \E fi \in MetaResponses :
       /\ fetched' = [fetched EXCEPT ![i] = <<fi>>]
       /\ calls' = Append(calls, call("GetFileInfoByFXID", i, records[i].FXID, 0,
                                      IF fi.err THEN "error" ELSE ""))
       /\ pc' = IF fi.err THEN "fatal" ELSE pc
       /\ IF fi.err
          THEN UNCHANGED <<sk, records, newRecords>>
          ELSE IF Contains(fi.File, "/proc/recycle")
          THEN /\ sk' = [sk EXCEPT !.Recycle = @ + 1]
               /\ UNCHANGED <<records, newRecords>>
          ELSE IF Contains(fi.File, "sys.v")
          THEN /\ sk' = [sk EXCEPT !.Versions = @ + 1]
               /\ UNCHANGED <<records, newRecords>>
          ELSE IF Contains(fi.File, "sys.a")
          THEN /\ sk' = [sk EXCEPT !.Atomic = @ + 1]
               /\ UNCHANGED <<records, newRecords>>
          ELSE /\ records' = [records EXCEPT ![i].File = fi.File]
               /\ newRecords' = Append(newRecords, i)
               /\ UNCHANGED sk
  /\ i' = i + 1
  /\ UNCHANGED <<input, repair, chunked, nasty, newchunked, listed, out>>
  /\ UNCHANGED <<size, ret>>

\* skipRecordsStep that tests the version namespace before the recycle one
skipRecordsStepVersionFirst ==
  /\ pc = "skipRecords"
  /\ i <= Len(records)
  /\ \E fi \in MetaResponses :
       /\ fetched' = [fetched EXCEPT ![i] = <<fi>>]
       /\ calls' = Append(calls, call("GetFileInfoByFXID", i, records[i].FXID, 0,
                                      IF fi.err THEN "error" ELSE ""))
       /\ IF fi.err
          THEN UNCHANGED <<sk, records, newRecords>>
          ELSE IF Contains(fi.File, "sys.v")
          THEN /\ sk' = [sk EXCEPT !.Versions = @ + 1]
               /\ UNCHANGED <<records, newRecords>>
          ELSE IF Contains(fi.File, "/proc/recycle")
          THEN /\ sk' = [sk EXCEPT !.Recycle = @ + 1]
               /\ UNCHANGED <<records, newRecords>>
          ELSE IF Contains(fi.File, "sys.a")
          THEN /\ sk' = [sk EXCEPT !.Atomic = @ + 1]
               /\ UNCHANGED <<records, newRecords>>
          ELSE /\ records' = [records EXCEPT ![i].File = fi.File]
               /\ newRecords' = Append(newRecords, i)
               /\ UNCHANGED sk
  /\ i' = i + 1
  /\ UNCHANGED <<pc, input, repair, chunked, nasty, newchunked, listed, out>>
  /\ UNCHANGED <<size, ret>>

\* skipRecordsStep without the continue of the atomic branch: the record is
\* counted and passes all the same
skipRecordsStepAtomicPasses ==
  /\ pc = "skipRecords"
  /\ i <= Len(records)
  /\ \E fi \in MetaResponses :
       /\ fetched' = [fetched EXCEPT ![i] = <<fi>>]
       /\ calls' = Append(calls, call("GetFileInfoByFXID", i, records[i].FXID, 0,
                                      IF fi.err THEN "error" ELSE ""))
       /\ IF fi.err
          THEN UNCHANGED <<sk, records, newRecords>>
          ELSE IF Contains(fi.File, "/proc/recycle")
          THEN /\ sk' = [sk EXCEPT !.Recycle = @ + 1]
               /\ UNCHANGED <<records, newRecords>>
          ELSE IF Contains(fi.File, "sys.v")
          THEN /\ sk' = [sk EXCEPT !.Versions = @ + 1]
               /\ UNCHANGED <<records, newRecords>>
          ELSE IF Contains(fi.File, "sys.a")
          THEN /\ sk' = [sk EXCEPT !.Atomic = @ + 1]
               /\ records' = [records EXCEPT ![i].File = fi.File]
               /\ newRecords' = Append(newRecords, i)
          ELSE /\ records' = [records EXCEPT ![i].File = fi.File]
               /\ newRecords' = Append(newRecords, i)
               /\ UNCHANGED sk
  /\ i' = i + 1
  /\ UNCHANGED <<pc, input, repair, chunked, nasty, newchunked, listed, out>>
  /\ UNCHANGED <<size, ret>>

skipRecordsStep ==
  /\ pc = "skipRecords"
  /\ i <= Len(records)
  /\ \E fi \in MetaResponses :
       /\ fetched' = [fetched EXCEPT ![i] = <<fi>>]
       /\ calls' = Append(calls, call("GetFileInfoByFXID", i, records[i].FXID, 0,
                                      IF fi.err THEN "error" ELSE ""))
       /\ IF fi.err
          THEN UNCHANGED <<sk, records, newRecords>>
          ELSE IF Contains(fi.File, "/proc/recycle")
          THEN /\ sk' = [sk EXCEPT !.Recycle = @ + 1]
               /\ UNCHANGED <<records, newRecords>>
          ELSE IF Contains(fi.File, "sys.v")
          THEN /\ sk' = [sk EXCEPT !.Versions = @ + 1]
               /\ UNCHANGED <<records, newRecords>>
          ELSE IF Contains(fi.File, "sys.a")
          THEN /\ sk' = [sk EXCEPT !.Atomic = @ + 1]
               /\ UNCHANGED <<records, newRecords>>
          ELSE /\ records' = [records EXCEPT ![i].File = fi.File]
               /\ newRecords' = Append(newRecords, i)
               /\ UNCHANGED sk
  /\ i' = i + 1
  /\ UNCHANGED <<pc, input, repair, chunked, nasty, newchunked, listed, out>>
  /\ UNCHANGED <<size, ret>>

skipRecordsReturn ==
  /\ pc = "skipRecords"
  /\ i > Len(records)
  /\ pc' = "getRecordDistribution"
  /\ i' = 1
  /\ UNCHANGED <<input, repair, records, newRecords, sk, chunked, nasty,
                 newchunked, fetched, listed, calls, out>>
  /\ UNCHANGED <<size, ret>>

\* ---- getRecordDistribution (main.go 313-325), one iteration ---------------------------
getRecordDistributionStep ==
  /\ pc = "getRecordDistribution"
  /\ i <= Len(newRecords)
  /\ LET r == newRecords[i] IN
       IF isChunked(records[r].Size)
       THEN /\ chunked' = Append(chunked, r)
            /\ records' = [records EXCEPT ![r].Handled = TRUE]
            /\ UNCHANGED nasty
       ELSE /\ nasty' = Append(nasty, r)
            /\ records' = [records EXCEPT ![r].Status = nastyNotChunk,
                                          ![r].Handled = TRUE]
            /\ UNCHANGED chunked
  /\ i' = i + 1
  /\ UNCHANGED <<pc, input, repair, newRecords, sk, newchunked, fetched,
                 listed, calls, out>>
  /\ UNCHANGED <<size, ret>>

\* return to main, which prints the initial counts (main.go 132-133)
getRecordDistributionReturn ==
  /\ pc = "getRecordDistribution"
  /\ i > Len(newRecords)
  /\ out' = out \o << printed("count_initial_chunked", 0),
                      printed("count_initial_nasty", 0) >>
  /\ pc' = "analyze"
  /\ i' = 1
  /\ UNCHANGED <<input, repair, records, newRecords, sk, chunked, nasty,
                 newchunked, fetched, listed, calls>>
  /\ UNCHANGED <<size, ret>>

\* ---- sortVersions (main.go 239-243) ------------------------------------------------------
\* sort.Slice with less = (a.MTimeSec > b.MTimeSec): the result is a
\* permutation of the slice in which no element is followed by one with a
\* greater mtime.  sort.Slice is not stable, so every such permutation is a
\* possible result.
Perms(n) == { p \in [1..n -> 1..n] : \A a, b \in 1..n : a # b => p[a] # p[b] }

\* sortVersions with the comparison reversed (oldest first)
sortVersionsOldestFirst(versions) ==
  { [k \in 1..Len(versions) |-> versions[p[k]]] : p \in
      { q \in Perms(Len(versions)) :
          \A a, b \in 1..Len(versions) :
             a < b => ~(versions[q[b]].MTimeSec < versions[q[a]].MTimeSec) } }

sortVersions(versions) ==
  { [k \in 1..Len(versions) |-> versions[p[k]]] : p \in
      { q \in Perms(Len(versions)) :
          \A a, b \in 1..Len(versions) :
             a < b => ~(versions[q[b]].MTimeSec > versions[q[a]].MTimeSec) } }

\* ---- haveValidVersion (main.go 222-236) --------------------------------------------------
\* r.Versions is sorted already (sorted is one result of sortVersions); the
\* result is the return value and the record as the function leaves it.
RECURSIVE firstNotChunked(_, _)
firstNotChunked(versions, k) ==
  IF k > Len(versions) THEN 0
  ELSE IF isChunked(versions[k].Size) THEN firstNotChunked(versions, k + 1)
  ELSE k

\* haveValidVersion that takes the newest version whatever its size
haveValidVersionTakesNewest(r, sorted) ==
  LET rs == [r EXCEPT !.Versions = sorted]
  IN IF Len(sorted) > 0
     THEN [valid |-> TRUE,
           r |-> [rs EXCEPT !.Status = notNasty, !.ValidVersion = <<sorted[1]>>]]
     ELSE [valid |-> FALSE, r |-> rs]

haveValidVersion(r, sorted) ==
  LET rs == [r EXCEPT !.Versions = sorted]
      k == firstNotChunked(sorted, 1)
  IN IF k > 0
     THEN [valid |-> TRUE,
           r |-> [rs EXCEPT !.Status = notNasty, !.ValidVersion = <<sorted[k]>>]]
     ELSE [valid |-> FALSE, r |-> rs]

\* ---- analyze (main.go 195-220), one iteration ------------------------------------------------
\* the body of the loop after a successful listing (main.go 206-217):
\* the record as it is left, and the slice it is appended to
\* analyzeRecord without the test for an empty listing
analyzeRecordNoEmptyTest(r, versions, sorted) ==
  LET rv == [r EXCEPT !.Versions = versions]
      h == haveValidVersion(rv, sorted) IN
  IF h.valid
  THEN [r |-> h.r, to |-> "newchunked"]
  ELSE [r |-> [h.r EXCEPT !.Status = nastyInvalidVersion], to |-> "nasty"]

analyzeRecord(r, versions, sorted) ==
  LET rv == [r EXCEPT !.Versions = versions] IN
  IF Len(versions) = 0
  THEN [r |-> [rv EXCEPT !.Status = nastyNoVersions], to |-> "nasty"]
  ELSE LET h == haveValidVersion(rv, sorted) IN
       IF h.valid
       THEN [r |-> h.r, to |-> "newchunked"]
       ELSE [r |-> [h.r EXCEPT !.Status = nastyInvalidVersion], to |-> "nasty"]

\* analyzeStep that skips the record on a listing error instead of aborting
analyzeStepSkipsOnError ==
  /\ pc = "analyze"
  /\ i <= Len(chunked)
  /\ LET r == chunked[i] IN
     \/ \E e \in ListErrors :
          /\ calls' = Append(calls, call("ListVersions", r, records[r].File, 0, e))
          /\ UNCHANGED <<records, nasty, newchunked, listed>>
     \/ \E versions \in VersionLists : \E sorted \in sortVersions(versions) :
          LET a == analyzeRecord(records[r], versions, sorted) IN
          /\ calls' = Append(calls, call("ListVersions", r, records[r].File, 0, ""))
          /\ listed' = [listed EXCEPT ![r] = Append(@, versions)]
          /\ records' = [records EXCEPT ![r] = a.r]
          /\ IF a.to = "nasty"
             THEN nasty' = Append(nasty, r) /\ UNCHANGED newchunked
             ELSE newchunked' = Append(newchunked, r) /\ UNCHANGED nasty
  /\ i' = i + 1
  /\ UNCHANGED <<pc, input, repair, newRecords, sk, chunked, fetched, out>>
  /\ UNCHANGED <<size, ret>>

analyzeStep ==
  /\ pc = "analyze"
  /\ i <= Len(chunked)
  /\ LET r == chunked[i] IN
     \/ \E e \in ListErrors :
          /\ calls' = Append(calls, call("ListVersions", r, records[r].File, 0, e))
          /\ pc' = "fatal"
          /\ UNCHANGED <<records, nasty, newchunked, i, listed>>
     \/ \E versions \in VersionLists : \E sorted \in sortVersions(versions) :
          LET a == analyzeRecord(records[r], versions, sorted) IN
          /\ calls' = Append(calls, call("ListVersions", r, records[r].File, 0, ""))
          /\ listed' = [listed EXCEPT ![r] = Append(@, versions)]
          /\ records' = [records EXCEPT ![r] = a.r]
          /\ IF a.to = "nasty"
             THEN nasty' = Append(nasty, r) /\ UNCHANGED newchunked
             ELSE newchunked' = Append(newchunked, r) /\ UNCHANGED nasty
          /\ i' = i + 1
          /\ UNCHANGED pc
  /\ UNCHANGED <<input, repair, newRecords, sk, chunked, fetched, out>>
  /\ UNCHANGED <<size, ret>>

\* return to main: chunked, nasty = analyze(chunked, nasty), then the totals
\* and the counts of the report (main.go 135-146)
analyzeReturn ==
  /\ pc = "analyze"
  /\ i > Len(chunked)
  /\ chunked' = newchunked
  /\ out' = out \o << printed("totals", 0),
                      printed("count_repairable", 0),
                      printed("count_nasty", 0),
                      printed("nasty_classification", 0) >>
  /\ pc' = "analyzeNasty"
  /\ i' = 1
  /\ UNCHANGED <<input, repair, records, newRecords, sk, nasty, newchunked,
                 fetched, listed, calls>>
  /\ UNCHANGED <<size, ret>>

\* ---- analyzeNasty (main.go 155-166), one iteration --------------------------------------------
\* analyzeNastyStep that looks for a valid version in the new listing
analyzeNastyStepRevalidates ==
  /\ pc = "analyzeNasty"
  /\ i <= Len(nasty)
  /\ LET r == nasty[i] IN
     \/ \E e \in ListErrors :
          /\ calls' = Append(calls, call("ListVersions", r, records[r].File, 0, e))
          /\ records' = [records EXCEPT ![r].Handled = TRUE]
          /\ pc' = "fatal"
          /\ UNCHANGED <<i, listed>>
     \/ \E versions \in VersionLists : \E sorted \in sortVersions(versions) :
          /\ calls' = Append(calls, call("ListVersions", r, records[r].File, 0, ""))
          /\ listed' = [listed EXCEPT ![r] = Append(@, versions)]
          /\ records' = [records EXCEPT ![r] =
                           haveValidVersion([@ EXCEPT !.Handled = TRUE], sorted).r]
          /\ i' = i + 1
          /\ UNCHANGED pc
  /\ UNCHANGED <<input, repair, newRecords, sk, chunked, nasty, newchunked,
                 fetched, out>>
  /\ UNCHANGED <<size, ret>>

analyzeNastyStep ==
  /\ pc = "analyzeNasty"
  /\ i <= Len(nasty)
  /\ LET r == nasty[i] IN
     \/ \E e \in ListErrors :
          /\ calls' = Append(calls, call("ListVersions", r, records[r].File, 0, e))
          /\ records' = [records EXCEPT ![r].Handled = TRUE]
          /\ pc' = "fatal"
          /\ UNCHANGED <<i, listed>>
     \/ \E versions \in VersionLists :
          /\ calls' = Append(calls, call("ListVersions", r, records[r].File, 0, ""))
          /\ listed' = [listed EXCEPT ![r] = Append(@, versions)]
          /\ records' = [records EXCEPT ![r].Handled = TRUE,
                                        ![r].Versions = versions]
          /\ i' = i + 1
          /\ UNCHANGED pc
  /\ UNCHANGED <<input, repair, newRecords, sk, chunked, nasty, newchunked,
                 fetched, out>>
  /\ UNCHANGED <<size, ret>>

\* return to main, then printInvalid(nasty) (main.go 148-149, 168-172)
printInvalid ==
  /\ pc = "analyzeNasty"
  /\ i > Len(nasty)
  /\ out' = out \o [k \in 1..Len(nasty) |-> printed("invalid", nasty[k])]
  /\ pc' = "rollback"
  /\ i' = 1
  /\ UNCHANGED <<input, repair, records, newRecords, sk, chunked, nasty,
                 newchunked, fetched, listed, calls>>
  /\ UNCHANGED <<size, ret>>

\* ---- rollback (main.go 183-193), one iteration ---------------------------------------------------
RollbackResults == {"", "error"}

\* rollbackStep that calls the backend whatever the -repair flag says
rollbackStepIgnoresRepair ==
  /\ pc = "rollback"
  /\ i <= Len(chunked)
  /\ LET r == chunked[i] IN
     /\ out' = Append(out, printed("rollback_plan", r))
     /\ \E e \in RollbackResults :
          calls' = Append(calls, call("RollbackToVersion", r, records[r].File,
                                      Base(records[r].ValidVersion[1].File), e))
  /\ i' = i + 1
  /\ UNCHANGED <<pc, input, repair, records, newRecords, sk, chunked, nasty,
                 newchunked, fetched, listed>>
  /\ UNCHANGED <<size, ret>>

\* rollbackStep that returns from rollback at the first failed call
rollbackStepStopsOnError ==
  /\ pc = "rollback"
  /\ i <= Len(chunked)
  /\ LET r == chunked[i] IN
     /\ out' = Append(out, printed("rollback_plan", r))
     /\ IF repair
        THEN \E e \in RollbackResults :
               /\ calls' = Append(calls, call("RollbackToVersion", r, records[r].File,
                                              Base(records[r].ValidVersion[1].File), e))
               /\ pc' = IF e = "" THEN pc ELSE "done"
        ELSE UNCHANGED <<calls, pc>>
  /\ i' = i + 1
  /\ UNCHANGED <<input, repair, records, newRecords, sk, chunked, nasty,
                 newchunked, fetched, listed>>
  /\ UNCHANGED <<size, ret>>

rollbackStep ==
  /\ pc = "rollback"
  /\ i <= Len(chunked)
  /\ LET r == chunked[i] IN
     /\ out' = Append(out, printed("rollback_plan", r))
     /\ IF repair
        THEN \E e \in RollbackResults :
               calls' = Append(calls, call("RollbackToVersion", r, records[r].File,
                                           Base(records[r].ValidVersion[1].File), e))
        ELSE UNCHANGED calls
  /\ i' = i + 1
  /\ UNCHANGED <<pc, input, repair, records, newRecords, sk, chunked, nasty,
                 newchunked, fetched, listed>>
  /\ UNCHANGED <<size, ret>>

\* the end of main
rollbackReturn ==
  /\ pc = "rollback"
  /\ i > Len(chunked)
  /\ pc' = "done"
  /\ UNCHANGED <<input, repair, records, newRecords, sk, chunked, nasty,
                 newchunked, i, fetched, listed, calls, out>>
  /\ UNCHANGED <<size, ret>>

Next ==
  \/ getRecords
  \/ skipRecordsStep
  \/ skipRecordsReturn
  \/ getRecordDistributionStep
  \/ getRecordDistributionReturn
  \/ analyzeStep
  \/ analyzeReturn
  \/ analyzeNastyStep
  \/ printInvalid
  \/ rollbackStep
  \/ rollbackReturn

Spec == Init /\ [][Next]_vars

\* ---- isChunked on its own (main.go 328-333) ---------------------------------------------
\* The sizes given to it: around every multiple of the chunk up to MaxChunks,
\* a chunk of 10 binary megabytes, and the largest size of the model.  The
\* remainder of an unsigned division does not wrap, so the sizes stay below
\* 2^31.
SizeSamples ==
  { m * ChunkSize + d : m \in 0..MaxChunks, d \in {0, 1, 5000000, 9999999} }
    \cup {10 * 1024 * 1024, 2147483647}

ChunkInit ==
  /\ pc = "isChunked"
  /\ size \in SizeSamples
  /\ ret = FALSE
  /\ input = <<>>
  /\ repair = FALSE
  /\ records = <<>>
  /\ newRecords = <<>>
  /\ sk = [Recycle |-> 0, Versions |-> 0, Atomic |-> 0]
  /\ chunked = <<>>
  /\ nasty = <<>>
  /\ newchunked = <<>>
  /\ i = 1
  /\ fetched = <<>>
  /\ listed = <<>>
  /\ calls = <<>>
  /\ out = <<>>

isChunkedCall ==
  /\ pc = "isChunked"
  /\ ret' = isChunked(size)
  /\ pc' = "isChunked_returned"
  /\ UNCHANGED <<input, repair, records, newRecords, sk, chunked, nasty,
                 newchunked, i, fetched, listed, calls, out, size>>

ChunkSpec == ChunkInit /\ [][isChunkedCall]_vars

\* main is one sequential process: a step that can be taken is taken
FairSpec == Spec /\ WF_vars(Next)

\* ---- properties -----------------------------------------------------------------------------------
Range(s) == { s[k] : k \in 1..Len(s) }
Recs == 1..Len(records)

\* analyze has returned to main
ResolverFinished == pc \in {"analyzeNasty", "rollback", "done"}

\* record r was classified as chunked and analyze has listed its versions;
\* listed[r][1] is then the listing analyze got
Resolved(r) ==
  /\ r \in Range(newRecords)
  /\ isChunked(records[r].Size)
  /\ Len(listed[r]) >= 1

HasNotChunked(L) == \E k \in 1..Len(L) : ~isChunked(L[k].Size)

RollbackCalls == { c \in 1..Len(calls) : calls[c].op = "RollbackToVersion" }
RollbackCallsFor(r) == { c \in RollbackCalls : calls[c].rec = r }

\* C1: a chunked record whose listing has a version that is not chunk-aligned
\* gets as ValidVersion a version of that listing that is not chunk-aligned
\* and such that every version with a strictly greater mtime is chunk-aligned,
\* and the record is in the repairable set (newchunked, then main's chunked).
C1_NewestNotChunkedSelected ==
  \A r \in Recs :
    (Resolved(r) /\ HasNotChunked(listed[r][1])) =>
      LET L == listed[r][1]
          vv == records[r].ValidVersion
      IN /\ vv # <<>>
         /\ \E k \in 1..Len(L) : L[k] = vv[1]
         /\ ~isChunked(vv[1].Size)
         /\ \A k \in 1..Len(L) :
              L[k].MTimeSec > vv[1].MTimeSec => isChunked(L[k].Size)
         /\ r \in Range(newchunked)
         /\ (ResolverFinished => r \in Range(chunked))

\* the scenario of the spec: the newest version is chunk-aligned, the older
\* one is not, and the older one is selected
C1_Witness ==
  /\ pc = "done"
  /\ \E r \in Recs :
       /\ Resolved(r)
       /\ Len(listed[r][1]) = 2
       /\ listed[r][1][1].Size = 20000000 /\ listed[r][1][1].MTimeSec = 100
       /\ listed[r][1][2].Size = 15000000 /\ listed[r][1][2].MTimeSec = 90
       /\ records[r].ValidVersion = << listed[r][1][2] >>
       /\ r \in Range(chunked)

\* C2 (the claim as stated): once analyze has returned, ValidVersion is set
\* if and only if Status is repairable.
C2_ValidVersionIffRepairable ==
  ResolverFinished =>
    \A r \in Recs :
      (records[r].ValidVersion # <<>>) <=> (records[r].Status = repairable)

\* C3: with -repair false no RollbackToVersion call is ever made.
C3_DryRunNeverRollsBack ==
  ~repair => RollbackCalls = {}

\* a dry run that ends with two repairable records, both plans printed
C3_Witness ==
  /\ ~repair
  /\ pc = "done"
  /\ Len(chunked) >= 2
  /\ \A k \in 1..Len(chunked) :
       \E o \in 1..Len(out) : out[o] = printed("rollback_plan", chunked[k])

\* C4: with -repair true, rollback calls RollbackToVersion exactly once for
\* each record of the final chunked slice that the loop has passed (all of
\* them at the end), for no other record, whatever the earlier calls
\* returned; and once main is in rollback it reaches its end.
C4_OncePerRecord ==
  (repair /\ pc \in {"rollback", "done"}) =>
    /\ \A k \in 1..Len(chunked) :
         Cardinality(RollbackCallsFor(chunked[k])) =
           (IF pc = "done" \/ k < i THEN 1 ELSE 0)
    /\ \A c \in RollbackCalls : calls[c].rec \in Range(chunked)

C4_ExactlyOnceAndTerminates ==
  /\ [] C4_OncePerRecord
  /\ (pc = "rollback") ~> (pc = "done")

\* the first rollback failed, the second record was rolled back all the same
C4_Witness ==
  /\ repair
  /\ pc = "done"
  /\ Len(chunked) >= 2
  /\ \E c \in RollbackCallsFor(chunked[1]) : calls[c].err = "error"
  /\ RollbackCallsFor(chunked[2]) # {}

\* C5 (the claim as stated): a record that passes the filter has the size the
\* metadata lookup reported, and when that size is not a multiple of
\* 10,000,000 it ends as nastyNotChunk in nasty, its versions never listed by
\* analyze.
C5_SizeFromMetadata ==
  \A r \in Range(newRecords) :
    /\ records[r].Size = fetched[r][1].Size
    /\ (pc = "done" /\ ~isChunked(fetched[r][1].Size)) =>
         /\ records[r].Status = nastyNotChunk
         /\ r \in Range(nasty)
         /\ r \notin Range(newchunked)

\* C6: a chunked record whose listing is empty ends as nastyNoVersions, one
\* whose listing is not empty and all chunk-aligned ends as
\* nastyInvalidVersion; both are in nasty, not in the repairable set, and
\* have no ValidVersion.
C6_NoVersionsOrInvalidVersion ==
  \A r \in Recs :
    (Resolved(r) /\ ~HasNotChunked(listed[r][1])) =>
      /\ records[r].Status =
           (IF Len(listed[r][1]) = 0 THEN nastyNoVersions ELSE nastyInvalidVersion)
      /\ r \in Range(nasty)
      /\ r \notin Range(newchunked)
      /\ (ResolverFinished => r \notin Range(chunked))
      /\ records[r].ValidVersion = <<>>

\* one record with an empty listing and one with a single chunk-aligned version
C6_Witness ==
  /\ pc = "done"
  /\ \E r1, r2 \in Recs :
       /\ Resolved(r1) /\ Resolved(r2)
       /\ listed[r1][1] = <<>>
       /\ records[r1].Status = nastyNoVersions
       /\ Len(listed[r2][1]) = 1
       /\ listed[r2][1][1].Size = 20000000
       /\ records[r2].Status = nastyInvalidVersion

\* C7 (the claim as stated): at the end of a run every record that passed
\* the filter has one of the five outcomes; none is left at the zero value.
C7_OutcomeIsOneOfFive ==
  pc = "done" =>
    \A r \in Range(newRecords) :
      records[r].Status \in {repairable, nastyNotChunk, nastyNoVersions,
                             nastyInvalidVersion, nastyNotExistsAnymore}

\* C8: after a transport error of ListVersions the run is aborted, that call
\* is the last backend call, and no RollbackToVersion call was made.
C8_ListErrorIsFatal ==
  \A c \in 1..Len(calls) :
    (calls[c].op = "ListVersions" /\ calls[c].err = "transport") =>
      /\ pc = "fatal"
      /\ c = Len(calls)
      /\ RollbackCalls = {}

\* execute mode, a repairable record already found, then a listing fails
C8_Witness ==
  /\ pc = "fatal"
  /\ repair
  /\ Len(newchunked) >= 1
  /\ calls[Len(calls)].op = "ListVersions"
  /\ calls[Len(calls)].err = "transport"

\* C9 (the claim as stated): when ListVersions reports that the path is
\* gone, the run is not aborted and the record gets nastyNotExistsAnymore.
C9_NotFoundIsNotFatal ==
  \A c \in 1..Len(calls) :
    (calls[c].op = "ListVersions" /\ calls[c].err = "notfound") =>
      /\ pc # "fatal"
      /\ records[calls[c].rec].Status = nastyNotExistsAnymore

\* C10: a record whose metadata lookup failed is in no slice, is left as
\* loaded, and has no other backend call; the skip counters count only the
\* namespace matches; the lookups go on to the last record; and a run is
\* never aborted right after a metadata lookup.
C10_MetaErrorDropsOnlyThatRecord ==
  /\ \A r \in Recs :
       fetched[r] = <<MetaError>> =>
         /\ r \notin (Range(newRecords) \cup Range(chunked) \cup Range(nasty)
                        \cup Range(newchunked))
         /\ records[r] = record(input[r][2], ParseInt(input[r][1]).val)
         /\ listed[r] = <<>>
         /\ Cardinality({ c \in 1..Len(calls) : calls[c].rec = r }) = 1
  /\ sk.Recycle + sk.Versions + sk.Atomic =
       Cardinality({ r \in Recs : /\ fetched[r] # <<>>
                                  /\ ~fetched[r][1].err
                                  /\ Segments[fetched[r][1].File] # {} })
  /\ (pc \notin {"getRecords", "skipRecords", "fatal"}) =>
       \A r \in Recs : fetched[r] # <<>>
  /\ (pc = "fatal" /\ calls # <<>>) =>
       calls[Len(calls)].op # "GetFileInfoByFXID"

\* the first lookup fails, the second record is analysed and rolled back
C10_Witness ==
  /\ pc = "done"
  /\ Len(records) >= 2
  /\ fetched[1] = <<MetaError>>
  /\ 2 \in Range(chunked)
  /\ RollbackCallsFor(2) # {}

\* the path the metadata lookup reported for record r matches namespace seg
Fetched(r) == fetched[r] # <<>> /\ ~fetched[r][1].err
InNamespace(r, seg) == Fetched(r) /\ Contains(fetched[r][1].File, seg)
Excluded(r) ==
  InNamespace(r, "/proc/recycle") \/ InNamespace(r, "sys.v") \/ InNamespace(r, "sys.a")

\* C11: each record whose path matches a namespace counts for exactly one
\* counter, the first that matches in the order recycle, version, atomic,
\* and is in no slice, has no version listing, no rollback, no other backend
\* call and no line of the report or of the rollback plan.
C11_FirstMatchWinsAndExcluded ==
  /\ sk.Recycle = Cardinality({ r \in Recs : InNamespace(r, "/proc/recycle") })
  /\ sk.Versions = Cardinality({ r \in Recs : /\ InNamespace(r, "sys.v")
                                             /\ ~InNamespace(r, "/proc/recycle") })
  /\ sk.Atomic = Cardinality({ r \in Recs : /\ InNamespace(r, "sys.a")
                                           /\ ~InNamespace(r, "sys.v")
                                           /\ ~InNamespace(r, "/proc/recycle") })
  /\ \A r \in Recs :
       Excluded(r) =>
         /\ r \notin (Range(newRecords) \cup Range(chunked) \cup Range(nasty)
                        \cup Range(newchunked))
         /\ records[r].File = "" /\ ~records[r].Handled
         /\ listed[r] = <<>>
         /\ Cardinality({ c \in 1..Len(calls) : calls[c].rec = r }) = 1
         /\ \A o \in 1..Len(out) : out[o].rec # r

\* a path in recycle that is also a version, and a version that is also atomic
C11_Witness ==
  /\ pc = "done"
  /\ Len(records) >= 2
  /\ Fetched(1) /\ Fetched(2)
  /\ Segments[fetched[1][1].File] = {"/proc/recycle", "sys.v"}
  /\ Segments[fetched[2][1].File] = {"sys.v", "sys.a"}
  /\ sk.Recycle = 1 /\ sk.Versions = 1 /\ sk.Atomic = 0

ListCallsFor(r) ==
  { c \in 1..Len(calls) : calls[c].op = "ListVersions" /\ calls[c].rec = r }

\* C12 (the claim as stated): ListVersions is called at most once for a
\* record and the record's Versions are set by at most one listing.
C12_VersionsPopulatedOnce ==
  \A r \in Recs :
    /\ Cardinality(ListCallsFor(r)) <= 1
    /\ Len(listed[r]) <= 1

\* C13 (the claim as stated): among the versions of the listing that are not
\* chunk-aligned and have the mtime of the selected one, the selected one is
\* the first in the backend's order.
C13_TieBrokenByInputOrder ==
  \A r \in Recs :
    (Resolved(r) /\ HasNotChunked(listed[r][1])) =>
      LET L == listed[r][1]
          vv == records[r].ValidVersion[1]
      IN \A k \in 1..Len(L) :
           (~isChunked(L[k].Size) /\ L[k].MTimeSec = vv.MTimeSec) =>
             Base(vv.File) <= k

NastyStatuses ==
  {nastyNotChunk, nastyNoVersions, nastyInvalidVersion, nastyNotExistsAnymore}

\* C14: no step changes the Status of a record that has one of the four
\* nasty statuses, gives it a ValidVersion, appends it to newchunked, or
\* leaves it in main's chunked once analyze has returned.
C14_UnrepairableStays ==
  [][ \A r \in Recs :
        records[r].Status \in NastyStatuses =>
          /\ records'[r].Status = records[r].Status
          /\ records'[r].ValidVersion = <<>>
          /\ r \notin Range(newchunked')
          /\ (pc' \in {"analyzeNasty", "rollback", "done"} =>
                r \notin Range(chunked')) ]_vars

\* a record found without a valid version, whose second listing (that of
\* analyzeNasty) has a version that is not chunk-aligned: it stays nasty
C14_Witness ==
  /\ pc = "done"
  /\ \E r \in Range(nasty) :
       /\ records[r].Status = nastyInvalidVersion
       /\ Len(listed[r]) = 2
       /\ HasNotChunked(listed[r][2])
       /\ records[r].ValidVersion = <<>>
       /\ r \notin Range(chunked)

ReportParts ==
  {"totals", "count_repairable", "count_nasty", "nasty_classification", "invalid"}

\* C15 (the claim as stated): in a run that was aborted, nothing of the
\* report (totals, counts per category, lines of the nasty records) was
\* printed.
C15_NoReportBeforeFatal ==
  pc = "fatal" => \A o \in 1..Len(out) : out[o].what \notin ReportParts

\* C16: isChunked returns true exactly for the sizes whose remainder by
\* 10,000,000 is 0; it returns true for 0.
C16_ChunkedIffMultiple ==
  pc = "isChunked_returned" =>
    /\ ret <=> (size % 10000000 = 0)
    /\ (size = 0 => ret)

\* isChunked has returned for the size 0
C16_WitnessZero == pc = "isChunked_returned" /\ size = 0 /\ ret

\* C17: every RollbackToVersion call is made with -repair set, for a record
\* of main's chunked that passed the filter and is not in nasty, with the
\* path the metadata lookup reported for it, and names the ValidVersion of
\* that record, which is a version of the listing analyze got for it and is
\* not chunk-aligned.
C17_RollbackTargetsValidVersion ==
  \A c \in RollbackCalls :
    LET r == calls[c].rec
        L == listed[r][1]
    IN /\ repair
       /\ r \in Range(chunked) /\ r \in Range(newRecords)
       /\ r \notin Range(nasty)
       /\ Fetched(r) /\ ~Excluded(r)
       /\ calls[c].arg = records[r].File
       /\ calls[c].arg = fetched[r][1].File
       /\ Len(listed[r]) = 1
       /\ records[r].ValidVersion # <<>>
       /\ calls[c].version = Base(records[r].ValidVersion[1].File)
       /\ \E k \in 1..Len(L) :
            /\ L[k] = records[r].ValidVersion[1]
            /\ Base(L[k].File) = calls[c].version
            /\ ~isChunked(L[k].Size)

\* a rollback to the second version listed (the first is chunk-aligned),
\* while another record is nasty
C17_Witness ==
  /\ pc = "done"
  /\ nasty # <<>>
  /\ \E c \in RollbackCalls :
       /\ calls[c].version = 2
       /\ isChunked(listed[calls[c].rec][1][1].Size)

\* skipRecords has returned
FilterFinished ==
  pc \in {"getRecordDistribution", "analyze", "analyzeNasty", "rollback", "done"}

MetaFailures == { r \in Recs : fetched[r] = <<MetaError>> }

\* C18: once analyze has returned, chunked and nasty have no record in
\* common, no record twice, and together exactly the records of newRecords;
\* once skipRecords has returned, the number of input lines is the length
\* of newRecords plus the three counters plus the failed metadata lookups.
C18_Conservation ==
  /\ ResolverFinished =>
       /\ Range(chunked) \cap Range(nasty) = {}
       /\ Range(chunked) \cup Range(nasty) = Range(newRecords)
       /\ Cardinality(Range(chunked)) = Len(chunked)
       /\ Cardinality(Range(nasty)) = Len(nasty)
       /\ Len(chunked) + Len(nasty) = Len(newRecords)
  /\ FilterFinished =>
       /\ Len(input) = Len(records)
       /\ Len(records) = Len(newRecords) + sk.Recycle + sk.Versions + sk.Atomic
                           + Cardinality(MetaFailures)

\* one record repairable, one nasty
C18_Witness ==
  /\ pc = "done"
  /\ Len(newRecords) = 2
  /\ Len(chunked) = 1
  /\ Len(nasty) = 1

\* C19: when a line of the input is malformed, no backend call is ever made
\* and main gets no further than getRecords, where it aborts.
C19_MalformedInputAbortsFirst ==
  (\E k \in 1..Len(input) : ~LineOk(input[k])) =>
    /\ calls = <<>>
    /\ pc \in {"getRecords", "fatal"}
    /\ records = <<>>

\* a well-formed line followed by a malformed one: aborted, nothing called
C19_Witness ==
  /\ pc = "fatal"
  /\ Len(input) = 2
  /\ LineOk(input[1])
  /\ ~LineOk(input[2])
  /\ calls = <<>>
====
